---- MODULE Spec2Model ----
(***************************************************************************)
(* A model of the janus synthesizer's device layer: the Amp and the        *)
(* state-variable filter in both numeric domains (devices/amp.rs,          *)
(* devices/filt.rs), the filter's foreign entry points, and the callers    *)
(* that drive them.  Fixed-point values are the raw two's-complement       *)
(* integers of their formats; floating-point values are rationals with     *)
(* the denominator FUNIT.                                                  *)
(***************************************************************************)
EXTENDS Integers, Sequences, FiniteSets, TLC

VARIABLES amp, ampfx, filt, filtfx, last, env

vars == <<amp, ampfx, filt, filtfx, last, env>>

(***************************************************************************)
(* Machine integers.                                                       *)
(***************************************************************************)
I16_MAX == 32767
I16_MIN == -32768
U16_MAX == 65535
I32_MAX == 2147483647
I32_MIN == (-2147483647) - 1

Min(a, b) == IF a < b THEN a ELSE b
Max(a, b) == IF a < b THEN b ELSE a
Abs(a) == IF a < 0 THEN -a ELSE a

\* 2^n for n in 0..30.
Pow2Table == <<1, 2, 4, 8, 16, 32, 64, 128, 256, 512, 1024, 2048, 4096, 8192,
               16384, 32768, 65536, 131072, 262144, 524288, 1048576, 2097152,
               4194304, 8388608, 16777216, 33554432, 67108864, 134217728,
               268435456, 536870912, 1073741824>>
Pow2(n) == Pow2Table[n + 1]

\* An arithmetic right shift: the floor of x / 2^n.
Shr(x, n) == x \div Pow2(n)

\* Does a + b leave the 32-bit signed range?
AddOverflows(a, b) ==
    \/ b > 0 /\ a > I32_MAX - b
    \/ b < 0 /\ a < I32_MIN - b

\* a + b as the 32-bit two's-complement sum.
WrappingAdd(a, b) ==
    IF b > 0 /\ a > I32_MAX - b THEN (a + I32_MIN) + (b + I32_MIN)
    ELSE IF b < 0 /\ a < I32_MIN - b THEN (a - I32_MIN) + (b - I32_MIN)
    ELSE a + b

\* -b; I32_MIN has no negation in 32 bits and wraps to itself.
NegOverflows(b) == b = I32_MIN
WrappingNeg(b) == IF b = I32_MIN THEN I32_MIN ELSE -b

SubOverflows(a, b) ==
    IF b = I32_MIN THEN a >= 0 ELSE AddOverflows(a, -b)

\* a - b with the sign of b lost: a + b.
WrappingSub_sign_lost(a, b) == WrappingAdd(a, b)

WrappingSub(a, b) ==
    IF b = I32_MIN THEN (IF a >= 0 THEN a + I32_MIN ELSE a - I32_MIN)
    ELSE WrappingAdd(a, -b)

\* floor(a * b / 2^s) for 16-bit unsigned a, b and s >= 1, by 8-bit limbs of a.
MulShr(a, b, s) ==
    LET p1 == (a \div 256) * b
        p0 == (a % 256) * b
    IN  IF s >= 8 THEN (p1 + p0 \div 256) \div Pow2(s - 8)
        ELSE p1 * Pow2(8 - s) + p0 \div Pow2(s)

\* The low 16 bits of a * b for 16-bit unsigned a, b.
MulLo(a, b) == ((((a \div 256) * b) % 256) * 256 + (a % 256) * b) % 65536

(***************************************************************************)
(* Program constants.                                                      *)
(***************************************************************************)
STATIC_BUFFER_SIZE == 256
SAMPLE_RATE == 44100
\* FRAC_4096_2PI_SR = 0x0.9565925d (U0F32), as two 16-bit limbs.
FRAC_4096_2PI_SR_HI == 38245
FRAC_4096_2PI_SR_LO == 37469
\* FiltFxP::RES_MAX = 0x0.F000 (ScalarFxP, U0F16).
FXP_RES_MAX == 61440
\* ScalarFxP::MAX
SCALAR_MAX == 65535

\* The zeroed buffers a constructor makes.
ZeroBuffer == [i \in 1..STATIC_BUFFER_SIZE |-> 0]

(***************************************************************************)
(* Fixed-point conversions (the formats are those of the type annotations  *)
(* in FiltFxP::process: SampleFxP = I4F12, ScalarFxP = U0F16,              *)
(* NoteFxP = U7F9).                                                        *)
(***************************************************************************)
\* SampleFxP::saturating_from_num of a raw value already in I4F12 units.
SatSample(x) == IF x > I16_MAX THEN I16_MAX ELSE IF x < I16_MIN THEN I16_MIN ELSE x

\* SampleFxP::saturating_from_num(I12F20)
SampleFromI12F20(x) == SatSample(Shr(x, 8))

\* 2^(s/12) for s = 0..12 as U2F14.
SemitoneRatio == <<16384, 17358, 18390, 19484, 20643, 21870, 23170,
                   24548, 26008, 27554, 29193, 30929, 32768>>

\* fixedmath::midi_note_to_frequency, then U14F2::from_num: 440 * 2^((n - 69)/12)
\* as U14F2, the ratio within a semitone interpolated linearly.
midi_note_to_frequency_fxp(n) ==
    LET semis == n \div 512
        frac  == n % 512
        o     == (semis + 3) \div 12
        s     == (semis + 3) % 12
        r     == SemitoneRatio[s + 1]
                   + ((SemitoneRatio[s + 2] - SemitoneRatio[s + 1]) * frac) \div 512
    IN  (1760 * r) \div Pow2(20 - o)

\* fixedmath::tan_fixed: the odd polynomial x + x^3/3 + 2x^5/15 + 17x^7/315 in
\* 15 fractional bits; it falls short of tan above about half Nyquist.
tan_fixed(w) ==
    LET x  == w \div 2
        x2 == (x * x) \div 32768
        x3 == (x2 * x) \div 32768
        x5 == (x3 * x2) \div 32768
        x7 == (x5 * x2) \div 32768
    IN  Min(x + x3 \div 3 + (2 * x5) \div 15 + (17 * x7) \div 315, U16_MAX)

\* FiltFxP::prewarped_gain: omega_d = (f_c * FRAC_4096_2PI_SR) >> 13 narrowed to
\* U0F16, which is bit 31 upward of the 48-bit product.
FxP_prewarped_gain(n) ==
    LET f_c == midi_note_to_frequency_fxp(n)
        xh  == MulShr(f_c, FRAC_4096_2PI_SR_HI, 16)
        xl  == MulLo(f_c, FRAC_4096_2PI_SR_HI)
        yh  == MulShr(f_c, FRAC_4096_2PI_SR_LO, 16)
        omega_d == 2 * xh + (xl + yh) \div 32768
    IN  tan_fixed(omega_d)

\* fixedmath::one_over_one_plus: for k (U3F29, as 16-bit limbs) the reciprocal of
\* 1 + k normalised into (1/2, 1] as U1F15, and the right shift that undoes the
\* normalisation.  1 + k is taken to 13 fractional bits.
one_over_one_plus(k) ==
    LET x     == 8192 + k.hi
        shift == IF x < 16384 THEN 0 ELSE IF x < 32768 THEN 1
                 ELSE IF x < 65536 THEN 2 ELSE 3
    IN  [inv |-> ((1073741824 \div x) * Pow2(shift)) \div 4, shift |-> shift]

(***************************************************************************)
(* FiltFxP (filt.rs 127-210).  A filter is its three output buffers and    *)
(* the two integrator states low_z, band_z (I12F20).                       *)
(***************************************************************************)
FiltFxP_new ==
    [low |-> ZeroBuffer, band |-> ZeroBuffer, high |-> ZeroBuffer,
     low_z |-> 0, band_z |-> 0]

\* x.unwrapped_shl(1) for a 32-bit unsigned x below 2^31, as 16-bit limbs; a
\* bit shifted out of bit 31 shows as hi > 65535.
unwrapped_shl_1(x) ==
    [hi |-> 2 * (x \div 65536) + (2 * (x % 65536)) \div 65536,
     lo |-> (2 * (x % 65536)) % 65536]

\* The unsigned 32-bit sum of a, below 2^31, and the limbs b, as 16-bit limbs;
\* a carry out of bit 31 shows as hi > 65535.
AddU32(a, b) ==
    LET lo == (a % 65536) + b.lo
    IN  [hi |-> (a \div 65536) + b.hi + lo \div 65536, lo |-> lo % 65536]

\* res * gain with one bit dropped, as the comment in the code has it, in
\* place of two: twice the value, which the sum k has no room for.
gain_r_U2F30(res, gain) == MulShr(res, gain, 1)

\* gain_r: U3F29::from_num(res.wide_mul(gain)), the U1F31 product with two
\* bits dropped.
gain_r_U3F29(res, gain) == MulShr(res, gain, 2)

\* The coefficients of an iteration of FiltFxP::process from gain (U1F15) and
\* res (U0F16): gain2 and gain_r (U3F29), gain_r shifted left, k (U3F29, as
\* limbs), gain_plus_2r (U3F29) and its narrowing to U3F13.
FiltFxP_coefficients(gain, res) ==
    LET gain2  == MulShr(gain, gain, 1)
        gain_r == gain_r_U3F29(res, gain)
        gain_plus_2r == (res * 8192) * 2 + gain * 16384
    IN  [gain2 |-> gain2, gain_r |-> gain_r,
         gain_r_shl |-> unwrapped_shl_1(gain_r),
         k |-> AddU32(gain2, unwrapped_shl_1(gain_r)),
         gain_plus_2r |-> gain_plus_2r,
         fb_gain |-> gain_plus_2r \div 65536]

\* One iteration of the loop of FiltFxP::process on the states (low_z, band_z):
\* the three outputs, the new states, and what the iteration computed on the way.
\* The I12F20 additions and subtractions are the 32-bit wrapping ones; ovf_at
\* names the first statement whose result left the I12F20 range (1: the
\* numerator, 2: band, 3: band_z, 4: low, 5: low_z), 0 when none did.
FiltFxP_sample(low_z, band_z, input, cutoff, resonance) ==
    LET clamped  == Min(resonance, FXP_RES_MAX)
        res      == SCALAR_MAX - clamped
        gain     == FxP_prewarped_gain(cutoff)
        c        == FiltFxP_coefficients(gain, res)
        k        == c.k
        d        == one_over_one_plus(k)
        fb_gain  == c.fb_gain
        band_high_feedback == fb_gain * SampleFromI12F20(band_z)
        in20     == input * 256
        fb20     == Shr(band_high_feedback, 5)
        num1     == WrappingSub(in20, fb20)
        num2     == WrappingSub(num1, low_z)
        high_num == SampleFromI12F20(num2)
        high_unshifted == high_num * d.inv
        high     == SatSample(Shr(Shr(high_unshifted, d.shift), 15))
        band_gain == Shr(gain * high, 7)
        band     == WrappingAdd(band_gain, band_z)
        band_out == SampleFromI12F20(band)
        band_z2  == WrappingAdd(band, band_gain)
        low_gain == Shr(gain * band_out, 7)
        low      == WrappingAdd(low_gain, low_z)
        low_out  == SampleFromI12F20(low)
        low_z2   == WrappingAdd(low, low_gain)
    IN  [low |-> low_out, band |-> band_out, high |-> high,
         low_z |-> low_z2, band_z |-> band_z2,
         input |-> input, cutoff |-> cutoff, resonance |-> resonance,
         low_z0 |-> low_z, band_z0 |-> band_z,
         clamped |-> clamped, res |-> res, gain |-> gain, k |-> k,
         denom_inv |-> d.inv, shift |-> d.shift, fb_gain |-> fb_gain,
         high_num |-> high_num, band20 |-> band, low20 |-> low,
         ovf_at |-> IF SubOverflows(in20, fb20) \/ SubOverflows(num1, low_z) THEN 1
                    ELSE IF AddOverflows(band_gain, band_z) THEN 2
                    ELSE IF AddOverflows(band, band_gain) THEN 3
                    ELSE IF AddOverflows(low_gain, low_z) THEN 4
                    ELSE IF AddOverflows(low, low_gain) THEN 5
                    ELSE 0]

\* The filter after iteration i (0-based) of the loop, s being what the
\* iteration computed; a debug build panics at the overflowing statement p > 0
\* and leaves the later writes undone.
FiltFxP_store(self, i, s, p) ==
    [high   |-> IF p = 0 \/ p > 1 THEN [self.high EXCEPT ![i + 1] = s.high] ELSE self.high,
     band   |-> IF p = 0 \/ p > 2 THEN [self.band EXCEPT ![i + 1] = s.band] ELSE self.band,
     band_z |-> IF p = 0 \/ p > 3 THEN s.band_z ELSE self.band_z,
     low    |-> IF p = 0 \/ p > 4 THEN [self.low EXCEPT ![i + 1] = s.low] ELSE self.low,
     low_z  |-> IF p = 0 THEN s.low_z ELSE self.low_z]

Profiles == {"debug", "release"}

\* Where iteration i stops under profile, given what it computed: a debug
\* build panics at the first statement that overflows, a release build wraps.
FiltFxP_panic(profile, s) == IF profile = "debug" THEN s.ovf_at ELSE 0

\* The loop state acc after iteration i computed s: the filter, the record of
\* what each iteration computed, and whether the iteration panicked.
FiltFxP_iter(acc, i, profile, s) ==
    [self |-> FiltFxP_store(acc.self, i, s, FiltFxP_panic(profile, s)),
     trace |-> Append(acc.trace, s),
     panicked |-> FiltFxP_panic(profile, s) > 0]

\* The body of the loop of FiltFxP::process at index i, on the loop state acc.
FiltFxP_body(acc, input, cutoff, resonance, i, profile) ==
    FiltFxP_iter(acc, i, profile,
                 FiltFxP_sample(acc.self.low_z, acc.self.band_z,
                                input[i + 1], cutoff[i + 1], resonance[i + 1]))

\* The for loop of FiltFxP::process over lo <= i < hi, split in halves; it
\* stops at the iteration that panics.
RECURSIVE FiltFxP_loop(_, _, _, _, _, _, _)
FiltFxP_loop(acc, input, cutoff, resonance, profile, lo, hi) ==
    IF acc.panicked THEN acc
    ELSE IF hi - lo = 1 THEN FiltFxP_body(acc, input, cutoff, resonance, lo, profile)
    ELSE LET mid == (lo + hi) \div 2
             left == FiltFxP_loop(acc, input, cutoff, resonance, profile, lo, mid)
         IN  FiltFxP_loop(left, input, cutoff, resonance, profile, mid, hi)

\* numsamples of FiltFxP::process with a capacity one short.
FiltFxP_numsamples_short(input, cutoff, resonance) ==
    Min(Min(Len(input), Len(cutoff)), Min(Len(resonance), STATIC_BUFFER_SIZE - 1))

\* numsamples of FiltFxP::process
FiltFxP_numsamples(input, cutoff, resonance) ==
    Min(Min(Len(input), Len(cutoff)), Min(Len(resonance), STATIC_BUFFER_SIZE))

\* What FiltFxP::process returns from the loop state r its loop ended in: the
\* filter afterwards and the three slices (none when the call panicked).
FiltFxP_return(r, numsamples) ==
    [self |-> r.self, trace |-> r.trace, panicked |-> r.panicked,
     n    |-> IF r.panicked THEN -1 ELSE numsamples,
     low  |-> IF r.panicked THEN <<>> ELSE SubSeq(r.self.low, 1, numsamples),
     band |-> IF r.panicked THEN <<>> ELSE SubSeq(r.self.band, 1, numsamples),
     high |-> IF r.panicked THEN <<>> ELSE SubSeq(r.self.high, 1, numsamples)]

\* The loop of FiltFxP::process started from cleared integrators.
FiltFxP_run_reset(self, input, cutoff, resonance, profile, numsamples) ==
    IF numsamples = 0 THEN [self |-> self, trace |-> <<>>, panicked |-> FALSE]
    ELSE FiltFxP_loop([self |-> [self EXCEPT !.low_z = 0, !.band_z = 0],
                       trace |-> <<>>, panicked |-> FALSE],
                      input, cutoff, resonance, profile, 0, numsamples)

\* The loop of FiltFxP::process over 0 <= i < numsamples.
FiltFxP_run(self, input, cutoff, resonance, profile, numsamples) ==
    IF numsamples = 0 THEN [self |-> self, trace |-> <<>>, panicked |-> FALSE]
    ELSE FiltFxP_loop([self |-> self, trace |-> <<>>, panicked |-> FALSE],
                      input, cutoff, resonance, profile, 0, numsamples)

\* FiltFxP::process
FiltFxP_process(self, input, cutoff, resonance, profile) ==
    FiltFxP_return(FiltFxP_run(self, input, cutoff, resonance, profile,
                               FiltFxP_numsamples(input, cutoff, resonance)),
                   FiltFxP_numsamples(input, cutoff, resonance))

(***************************************************************************)
(* The floating-point domain.  A float is the integer number of 1/FUNIT    *)
(* it holds; every operation rounds its exact result to the nearest such   *)
(* number, as f32 and f64 round to the nearest float.  FUNIT = 0xFFFF      *)
(* makes Float::RES_MAX = 0xF000 / 0xFFFF exact.  NaN is the one integer   *)
(* outside the range of these floats; only comparisons take it.            *)
(***************************************************************************)
FUNIT == 65535
NaN == I32_MIN
F_ZERO == 0
F_ONE == FUNIT
F_TWO == 2 * FUNIT
\* Float::RES_MAX = 0xF000 as f32 / 0xFFFF as f32
F_RES_MAX == 61440
\* Smp::PI()
F_PI == 205884

\* a * b
FMul(a, b) ==
    LET qa == a \div FUNIT
        ra == a % FUNIT
        qb == b \div FUNIT
        rb == b % FUNIT
        p1 == (ra \div 256) * rb
        p0 == (ra % 256) * rb
    IN  qa * qb * FUNIT + qa * rb + ra * qb
          + (p1 \div FUNIT) * 256 + ((p1 % FUNIT) * 256 + p0 + 32767) \div FUNIT

\* a / d for d > 0 (FUNIT = 255 * 257)
FDiv(a, d) ==
    LET q  == a \div d
        t  == (a % d) * 255
        r1 == t % d
    IN  q * FUNIT + (t \div d) * 257 + (r1 * 257 + d \div 2) \div d

\* a / n for an integer n > 0
FDivInt(a, n) == (a + n \div 2) \div n

\* a < b on floats: false when either is NaN
FLt(a, b) == a # NaN /\ b # NaN /\ a < b

\* exp2
FExp2(x) ==
    LET o   == x \div FUNIT
        fr  == x % FUNIT
        idx == (fr * 12) \div FUNIT
        rem == (fr * 12) % FUNIT
        r   == SemitoneRatio[idx + 1]
                 + ((SemitoneRatio[idx + 2] - SemitoneRatio[idx + 1]) * rem) \div FUNIT
        m   == (r * FUNIT) \div 16384
    IN  IF o >= 0 THEN m * Pow2(o) ELSE FDivInt(m, Pow2(-o))

\* tan on [0, pi/2), as sin / cos by their series to the ninth power
FTan(x) ==
    LET x2 == FMul(x, x)
        s4 == F_ONE - FDivInt(x2, 72)
        s3 == F_ONE - FDivInt(FMul(x2, s4), 42)
        s2 == F_ONE - FDivInt(FMul(x2, s3), 20)
        s1 == F_ONE - FDivInt(FMul(x2, s2), 6)
        c4 == F_ONE - FDivInt(x2, 56)
        c3 == F_ONE - FDivInt(FMul(x2, c4), 30)
        c2 == F_ONE - FDivInt(FMul(x2, c3), 12)
        c1 == F_ONE - FDivInt(FMul(x2, c2), 2)
    IN  FDiv(FMul(x, s1), c1)

\* devices::midi_note_to_frequency: c440 * ((note - c69) / c12).exp2()
midi_note_to_frequency(note) ==
    FMul(440 * FUNIT, FExp2(FDivInt(note - 69 * FUNIT, 12)))

\* Filt::prewarped_gain: tan(PI * f_c / SAMPLE_RATE); the division by
\* SAMPLE_RATE = 100 * 441 is taken around the product to keep it in range.
prewarped_gain(f) ==
    LET f_c == midi_note_to_frequency(f)
    IN  FTan(FDivInt(FMul(F_PI, FDivInt(f_c, 100)), SAMPLE_RATE \div 100))

(***************************************************************************)
(* Filt<Smp> (filt.rs 31-91).                                              *)
(***************************************************************************)
Filt_new ==
    [low |-> ZeroBuffer, band |-> ZeroBuffer, high |-> ZeroBuffer,
     low_z |-> F_ZERO, band_z |-> F_ZERO]

\* The resonance clamp with its comparison turned around.
Filt_clamp_inverted(resonance) ==
    IF FLt(F_RES_MAX, resonance) THEN resonance ELSE F_RES_MAX

\* The resonance an iteration of Filt::process uses.
Filt_clamp(resonance) == IF FLt(resonance, F_RES_MAX) THEN resonance ELSE F_RES_MAX

\* One iteration of the loop of Filt::process.
Filt_sample(low_z, band_z, input, cutoff, resonance) ==
    LET clamped == Filt_clamp(resonance)
        res     == F_ONE - clamped
        gain    == prewarped_gain(cutoff)
        two_res == FMul(F_TWO, res)
        denom   == FMul(gain, gain) + FMul(two_res, gain) + F_ONE
        high    == FDiv(input - FMul(two_res + gain, band_z) - low_z, denom)
        band_gain == FMul(gain, high)
        band    == band_gain + band_z
        band_z2 == band + band_gain
        low_gain == FMul(gain, band)
        low     == low_gain + low_z
        low_z2  == low + low_gain
    IN  [low |-> low, band |-> band, high |-> high,
         low_z |-> low_z2, band_z |-> band_z2,
         input |-> input, cutoff |-> cutoff, resonance |-> resonance,
         low_z0 |-> low_z, band_z0 |-> band_z,
         clamped |-> clamped, res |-> res, gain |-> gain, denom |-> denom]

\* The filter after iteration i with band_z left at band, the second addition
\* of band_gain forgotten.
Filt_store_once(self, i, s) ==
    [high   |-> [self.high EXCEPT ![i + 1] = s.high],
     band   |-> [self.band EXCEPT ![i + 1] = s.band],
     band_z |-> s.band,
     low    |-> [self.low EXCEPT ![i + 1] = s.low],
     low_z  |-> s.low_z]

\* The filter after iteration i (0-based) of the loop.
Filt_store(self, i, s) ==
    [high   |-> [self.high EXCEPT ![i + 1] = s.high],
     band   |-> [self.band EXCEPT ![i + 1] = s.band],
     band_z |-> s.band_z,
     low    |-> [self.low EXCEPT ![i + 1] = s.low],
     low_z  |-> s.low_z]

\* The loop state acc after iteration i computed s.
Filt_iter(acc, i, s) ==
    [self |-> Filt_store(acc.self, i, s), trace |-> Append(acc.trace, s),
     panicked |-> FALSE]

\* The body of the loop of Filt::process at index i, on the loop state acc.
Filt_body(acc, input, cutoff, resonance, i) ==
    Filt_iter(acc, i, Filt_sample(acc.self.low_z, acc.self.band_z,
                                  input[i + 1], cutoff[i + 1], resonance[i + 1]))

\* The for loop of Filt::process over lo <= i < hi, split in halves.
RECURSIVE Filt_loop(_, _, _, _, _, _)
Filt_loop(acc, input, cutoff, resonance, lo, hi) ==
    IF acc.panicked THEN acc
    ELSE IF hi - lo = 1 THEN Filt_body(acc, input, cutoff, resonance, lo)
    ELSE LET mid == (lo + hi) \div 2
             left == Filt_loop(acc, input, cutoff, resonance, lo, mid)
         IN  Filt_loop(left, input, cutoff, resonance, mid, hi)

\* FiltParams::len
FiltParams_len(cutoff, resonance) == Min(Len(cutoff), Len(resonance))

\* What Filt::process returns from the loop state r its loop ended in: the
\* filter afterwards and the three slices.
Filt_return(r, numsamples) ==
    [self |-> r.self, trace |-> r.trace, panicked |-> FALSE,
     n    |-> numsamples,
     low  |-> SubSeq(r.self.low, 1, numsamples),
     band |-> SubSeq(r.self.band, 1, numsamples),
     high |-> SubSeq(r.self.high, 1, numsamples)]

\* numsamples of Filt::process with the bound taken as exclusive.
Filt_numsamples_exclusive(input, cutoff, resonance) ==
    Max(0, Min(STATIC_BUFFER_SIZE, Min(Len(input), FiltParams_len(cutoff, resonance))) - 1)

\* numsamples of Filt::process
Filt_numsamples(input, cutoff, resonance) ==
    Min(STATIC_BUFFER_SIZE, Min(Len(input), FiltParams_len(cutoff, resonance)))

\* The loop of Filt::process over 0 <= i < numsamples.
Filt_run(self, input, cutoff, resonance, numsamples) ==
    IF numsamples = 0 THEN [self |-> self, trace |-> <<>>, panicked |-> FALSE]
    ELSE Filt_loop([self |-> self, trace |-> <<>>, panicked |-> FALSE],
                   input, cutoff, resonance, 0, numsamples)

\* Filt::process
Filt_process(self, input, cutoff, resonance) ==
    Filt_return(Filt_run(self, input, cutoff, resonance,
                         Filt_numsamples(input, cutoff, resonance)),
                Filt_numsamples(input, cutoff, resonance))

(***************************************************************************)
(* Amp<Smp> and AmpFxP (amp.rs).                                           *)
(***************************************************************************)
\* util::min_size: the least of the sizes.
RECURSIVE min_size(_)
min_size(sizes) ==
    IF Len(sizes) = 1 THEN sizes[1] ELSE Min(sizes[1], min_size(Tail(sizes)))

Amp_new == [outbuf |-> ZeroBuffer]

\* Amp::process with the rest of the buffer cleared.
Amp_process_clearing(self, signal, gain) ==
    LET numsamples == min_size(<<Len(signal), Len(gain), STATIC_BUFFER_SIZE>>)
        outbuf == [i \in 1..STATIC_BUFFER_SIZE |->
                     IF i <= numsamples THEN FMul(signal[i], gain[i]) ELSE F_ZERO]
    IN  [self |-> [outbuf |-> outbuf], n |-> numsamples,
         out |-> SubSeq(outbuf, 1, numsamples)]

\* Amp::process: the amp afterwards and the returned slice.
Amp_process(self, signal, gain) ==
    LET numsamples == min_size(<<Len(signal), Len(gain), STATIC_BUFFER_SIZE>>)
        outbuf == [i \in 1..STATIC_BUFFER_SIZE |->
                     IF i <= numsamples THEN FMul(signal[i], gain[i])
                     ELSE self.outbuf[i]]
    IN  [self |-> [outbuf |-> outbuf], n |-> numsamples,
         out |-> SubSeq(outbuf, 1, numsamples)]

\* The product of two I4F12 to 12 fractional bits, wrapped into the format.
wrapping_mul(a, b) == (((a * b) \div 4096 + 32768) % 65536) - 32768

\* SampleFxP::saturating_mul: the product of two I4F12 to 12 fractional bits,
\* saturated to the format.
saturating_mul(a, b) == SatSample((a * b) \div 4096)

AmpFxP_new == [outbuf |-> ZeroBuffer]

\* AmpFxP::process: the amp afterwards and the returned slice.
AmpFxP_process(self, signal, gain) ==
    LET numsamples == min_size(<<Len(signal), Len(gain), STATIC_BUFFER_SIZE>>)
        outbuf == [i \in 1..STATIC_BUFFER_SIZE |->
                     IF i <= numsamples THEN saturating_mul(signal[i], gain[i])
                     ELSE self.outbuf[i]]
    IN  [self |-> [outbuf |-> outbuf], n |-> numsamples,
         out |-> SubSeq(outbuf, 1, numsamples)]

(***************************************************************************)
(* The caller of section 4.1: it holds one device and one stream per       *)
(* input, calls process on what remains of each stream, and moves on by    *)
(* the number of samples the call returned, while any stream has input     *)
(* left; a call that returns no sample ends its loop.  env is the caller   *)
(* and the build; last is what the latest call was given and what it       *)
(* returned.                                                               *)
(***************************************************************************)
MaxLen == 513

Lens == {0, 1, STATIC_BUFFER_SIZE, STATIC_BUFFER_SIZE + 1, MaxLen}

Devices == {"Amp", "AmpFxP", "Filt", "FiltFxP"}

\* The stream of length n that repeats pattern.
Stream(pattern, n) == [i \in 1..n |-> pattern[((i - 1) % Len(pattern)) + 1]]

\* What is left of stream s after offset samples.
Rest(s, offset) == SubSeq(s, offset + 1, Len(s))

\* Patterns of <<signal, gain>> for the amps and of <<input, cutoff,
\* resonance>> for the filters, in each domain's units.
AmpPatterns ==
    {<<<<FUNIT \div 2, -FUNIT, 3 * FUNIT>>, <<FUNIT \div 4, 2 * FUNIT>>>>}
AmpFxPPatterns ==
    {<<<<I16_MAX, I16_MIN, 4096, -3>>, <<I16_MAX, I16_MIN, 2048>>>>,
     <<<<1024, -2048>>, <<8192, -4096, 1>>>>}
FiltPatterns ==
    {<<<<FUNIT \div 2>>, <<60 * FUNIT>>, <<0, F_RES_MAX - 1, F_RES_MAX, F_ONE>>>>,
     <<<<FUNIT, -FUNIT, 0>>, <<100 * FUNIT, 30 * FUNIT>>, <<NaN, 2 * FUNIT, -FUNIT>>>>}
FiltFxPPatterns ==
    {<<<<2048>>, <<60 * 512>>, <<0, FXP_RES_MAX - 1, FXP_RES_MAX, SCALAR_MAX>>>>,
     <<<<4096, -4096, 0>>, <<100 * 512, 30 * 512>>, <<FXP_RES_MAX + 1, 32768>>>>}

PatternsOf(dev) ==
    CASE dev = "Amp" -> AmpPatterns
      [] dev = "AmpFxP" -> AmpFxPPatterns
      [] dev = "Filt" -> FiltPatterns
      [] dev = "FiltFxP" -> FiltFxPPatterns

NoCall == [dev |-> "none", start |-> 0, lens |-> <<>>, n |-> 0, outs |-> <<>>,
           trace |-> <<>>, panicked |-> FALSE]

DevicesNew ==
    /\ amp = Amp_new
    /\ ampfx = AmpFxP_new
    /\ filt = Filt_new
    /\ filtfx = FiltFxP_new

Init ==
    /\ DevicesNew
    /\ last = NoCall
    /\ \E dev \in Devices, profile \in Profiles :
         \E pat \in PatternsOf(dev) :
           \E lens \in [1..Len(pat) -> Lens] :
             env = [dev |-> dev, profile |-> profile,
                    streams |-> [j \in 1..Len(pat) |-> Stream(pat[j], lens[j])],
                    offset |-> 0, calls |-> 0, halted |-> FALSE]

\* The caller's loop condition: some stream has input left, and the latest
\* call, if any, made progress.
InputLeft ==
    /\ ~env.halted
    /\ env.calls = 0 \/ last.n > 0
    /\ \E j \in 1..Len(env.streams) : env.offset < Len(env.streams[j])

\* What is left of stream j; a stream the offset has passed is empty.
Remaining(j) ==
    IF env.offset >= Len(env.streams[j]) THEN <<>> ELSE Rest(env.streams[j], env.offset)

\* The caller after a call that returned n samples, or panicked.
Advance(n, panicked) ==
    [env EXCEPT !.offset = IF panicked THEN @ ELSE @ + n,
                !.calls = @ + 1,
                !.halted = panicked]

CallAmp ==
    /\ env.dev = "Amp" /\ InputLeft
    /\ \E r \in {Amp_process(amp, Remaining(1), Remaining(2))} :
           /\ amp' = r.self
           /\ last' = [dev |-> "Amp", start |-> env.offset,
                       lens |-> <<Len(Remaining(1)), Len(Remaining(2))>>,
                       n |-> r.n, outs |-> <<r.out>>, trace |-> <<>>,
                       panicked |-> FALSE]
           /\ env' = Advance(r.n, FALSE)
    /\ UNCHANGED <<ampfx, filt, filtfx>>

CallAmpFxP ==
    /\ env.dev = "AmpFxP" /\ InputLeft
    /\ \E r \in {AmpFxP_process(ampfx, Remaining(1), Remaining(2))} :
           /\ ampfx' = r.self
           /\ last' = [dev |-> "AmpFxP", start |-> env.offset,
                       lens |-> <<Len(Remaining(1)), Len(Remaining(2))>>,
                       n |-> r.n, outs |-> <<r.out>>, trace |-> <<>>,
                       panicked |-> FALSE]
           /\ env' = Advance(r.n, FALSE)
    /\ UNCHANGED <<amp, filt, filtfx>>

CallFilt ==
    /\ env.dev = "Filt" /\ InputLeft
    /\ \E r \in {Filt_process(filt, Remaining(1), Remaining(2), Remaining(3))} :
           /\ filt' = r.self
           /\ last' = [dev |-> "Filt", start |-> env.offset,
                       lens |-> <<Len(Remaining(1)), Len(Remaining(2)),
                                  Len(Remaining(3))>>,
                       n |-> r.n, outs |-> <<r.low, r.band, r.high>>,
                       trace |-> r.trace, panicked |-> FALSE]
           /\ env' = Advance(r.n, FALSE)
    /\ UNCHANGED <<amp, ampfx, filtfx>>

CallFiltFxP ==
    /\ env.dev = "FiltFxP" /\ InputLeft
    /\ \E r \in {FiltFxP_process(filtfx, Remaining(1), Remaining(2), Remaining(3),
                                env.profile)} :
           /\ filtfx' = r.self
           /\ last' = [dev |-> "FiltFxP", start |-> env.offset,
                       lens |-> <<Len(Remaining(1)), Len(Remaining(2)),
                                  Len(Remaining(3))>>,
                       n |-> r.n, outs |-> <<r.low, r.band, r.high>>,
                       trace |-> r.trace, panicked |-> r.panicked]
           /\ env' = Advance(r.n, r.panicked)
    /\ UNCHANGED <<amp, ampfx, filt>>

Next == CallAmp \/ CallAmpFxP \/ CallFilt \/ CallFiltFxP

Spec == Init /\ [][Next]_vars

(***************************************************************************)
(* Output length (section 4.1).                                            *)
(***************************************************************************)
\* The least element of a non-empty set of numbers.
Least(S) == CHOOSE m \in S : \A x \in S : m <= x

\* The lengths the latest call was given.
LastLens == {last.lens[j] : j \in 1..Len(last.lens)}

\* The latest call returned.
Returned == last.dev # "none" /\ ~last.panicked

\* C1: whatever the lengths of the streams a call is given, mismatched and
\* empty ones included, every slice an amp or a filter returns has the length
\* min(length of every stream, 256); a filter returns three such slices.
C1_OutputLength ==
    Returned =>
        /\ Len(last.outs) = IF last.dev \in {"Filt", "FiltFxP"} THEN 3 ELSE 1
        /\ \A k \in 1..Len(last.outs) :
              Len(last.outs[k]) = Least(LastLens \cup {256})
        /\ last.n = Least(LastLens \cup {256})

\* C1 has happened: a fixed-point filter call on streams of three different
\* lengths, all above the capacity, returned slices of 256.
C1_Witness ==
    /\ Returned /\ last.dev = "FiltFxP"
    /\ last.lens = <<MaxLen, STATIC_BUFFER_SIZE + 1, MaxLen>>
    /\ Len(last.outs[3]) = STATIC_BUFFER_SIZE

(***************************************************************************)
(* The caller's loop (section 4.1).                                        *)
(***************************************************************************)
\* The lengths of the caller's streams.
StreamLens == {Len(env.streams[j]) : j \in 1..Len(env.streams)}

\* The streams are aligned: they all have the same length.
Aligned == Cardinality(StreamLens) = 1

\* ceil(n / 256)
CeilDiv256(n) == (n + 255) \div 256

\* The loop is over: the caller's loop condition is false, so no call follows.
LoopDone == ~InputLeft

\* What sample k of the latest call read is sample start + k of the streams.
ReadInOrder ==
    \A k \in 1..Len(last.trace) :
        /\ last.trace[k].input = env.streams[1][last.start + k]
        /\ last.trace[k].cutoff = env.streams[2][last.start + k]
        /\ last.trace[k].resonance = env.streams[3][last.start + k]

\* The output k of the latest call of an amp is made of sample start + k of
\* the streams.
AmpReadInOrder ==
    \A k \in 1..last.n :
        last.outs[1][k] =
            IF last.dev = "Amp"
            THEN FMul(env.streams[1][last.start + k], env.streams[2][last.start + k])
            ELSE saturating_mul(env.streams[1][last.start + k],
                                env.streams[2][last.start + k])

\* C2: the caller's loop ends.  A call on streams that are all non-empty
\* returns at least one sample and a call with an empty stream returns none,
\* without an error; each call starts where the last one ended and reads its
\* samples in order; on aligned streams of length L call number c leaves the
\* caller at min(L, 256 c), and the loop is over exactly when ceil(L / 256)
\* calls have consumed all L samples.
C2_LoopTerminates ==
    /\ Returned =>
          /\ (\A l \in LastLens : l >= 1) => last.n >= 1
          /\ (\E l \in LastLens : l = 0) => last.n = 0
          /\ last.start + last.n = env.offset
          /\ IF last.dev \in {"Amp", "AmpFxP"} THEN AmpReadInOrder
             ELSE last.n = Len(last.trace) /\ ReadInOrder
    /\ (Aligned /\ ~env.halted) =>
          LET L == Least(StreamLens)
          IN  /\ env.offset = Min(L, 256 * env.calls)
              /\ env.calls <= CeilDiv256(L)
              /\ LoopDone <=> (env.calls = CeilDiv256(L) /\ env.offset = L)
    /\ env.calls <= CeilDiv256(MaxLen) + 1

\* C2 has happened: on aligned streams of MaxLen samples the loop is over after
\* its third call, which returned the one sample left.
C2_Witness ==
    /\ Aligned /\ Least(StreamLens) = MaxLen /\ LoopDone
    /\ env.calls = 3 /\ last.n = MaxLen - 2 * STATIC_BUFFER_SIZE /\ last.dev = "Filt"

(***************************************************************************)
(* The resonance ceiling (sections 4.3 and 7).                             *)
(***************************************************************************)
\* The samples the latest call of a filter computed.
Samples == 1..Len(last.trace)

\* C4: in every sample of Filt::process and of FiltFxP::process the resonance
\* used is the input's when that is below RES_MAX and RES_MAX otherwise (also
\* for a NaN), RES_MAX is below one, and so the damping res = one - clamped
\* resonance is above zero; in fixed point ScalarFxP::MAX - min(resonance,
\* RES_MAX) stays in the unsigned 16 bits, it does not underflow.
C4_ResonanceClamped ==
    /\ F_RES_MAX < F_ONE /\ FXP_RES_MAX < SCALAR_MAX + 1
    /\ last.dev = "Filt" =>
          \A k \in Samples :
              LET s == last.trace[k]
              IN  /\ s.clamped # NaN /\ s.clamped <= F_RES_MAX
                  /\ (s.resonance # NaN /\ s.resonance < F_RES_MAX) => s.clamped = s.resonance
                  /\ (s.resonance = NaN \/ s.resonance >= F_RES_MAX) => s.clamped = F_RES_MAX
                  /\ s.res = F_ONE - s.clamped /\ s.res > 0
    /\ last.dev = "FiltFxP" =>
          \A k \in Samples :
              LET s == last.trace[k]
              IN  /\ s.clamped <= FXP_RES_MAX
                  /\ s.clamped = IF s.resonance < FXP_RES_MAX THEN s.resonance
                                 ELSE FXP_RES_MAX
                  /\ s.res = SCALAR_MAX - s.clamped
                  /\ s.res > 0 /\ s.res <= U16_MAX

\* C4 has happened: a call of Filt::process clamped a NaN, a resonance of two
\* and a resonance of one, and passed a negative resonance on.
C4_Witness ==
    /\ last.dev = "Filt"
    /\ \E k \in Samples : last.trace[k].resonance = NaN /\ last.trace[k].res > 0
    /\ \E k \in Samples : last.trace[k].resonance = F_TWO
                              /\ last.trace[k].clamped = F_RES_MAX
    /\ \E k \in Samples : last.trace[k].resonance = -F_ONE
                              /\ last.trace[k].clamped = -F_ONE

(***************************************************************************)
(* Saturation in AmpFxP (section 4.2).                                     *)
(***************************************************************************)
\* Output k of the latest call against the exact product p of its two inputs,
\* p in units of 2^-24: the product cut to 12 fractional bits when that is in
\* the sample format, the format's maximum when it is above, its minimum when
\* it is below, and never of the sign opposite to the product's.
SaturatedProduct(out, p) ==
    /\ (p >= I16_MIN * 4096 /\ p < (I16_MAX + 1) * 4096) =>
            (out * 4096 - 4096 < p /\ p < out * 4096 + 4096)
    /\ p >= (I16_MAX + 1) * 4096 => out = I16_MAX
    /\ p < I16_MIN * 4096 => out = I16_MIN
    /\ p > 0 => out >= 0
    /\ p < 0 => out <= 0

\* C9: AmpFxP::process saturates: each output is the exact product of its
\* signal and gain samples cut to the sample format, or the format's maximum
\* or minimum when the product is above or below it, never a wrapped value.
C9_AmpFxPSaturates ==
    (Returned /\ last.dev = "AmpFxP") =>
        \A k \in 1..last.n :
            SaturatedProduct(last.outs[1][k],
                             env.streams[1][last.start + k]
                               * env.streams[2][last.start + k])

\* C9 has happened: one call of AmpFxP::process returned a product saturated
\* at the maximum, one saturated at the minimum and one in range.
C9_Witness ==
    /\ Returned /\ last.dev = "AmpFxP" /\ last.n >= 5
    /\ env.streams[1][2] = I16_MIN /\ env.streams[2][2] = I16_MIN
    /\ last.outs[1][2] = I16_MAX
    /\ env.streams[1][5] = I16_MAX /\ env.streams[2][5] = I16_MIN
    /\ last.outs[1][5] = I16_MIN
    /\ last.outs[1][4] = -24

(***************************************************************************)
(* The filter's recurrence (section 4.3).                                  *)
(***************************************************************************)
\* Sample s of Filt::process follows the recurrence, in the floats' arithmetic.
FiltRecurrence(s) ==
    LET gain == prewarped_gain(s.cutoff)
        res  == s.res
        two_res == FMul(F_TWO, res)
    IN  /\ s.gain = gain
        /\ s.high = FDiv(s.input - FMul(two_res + gain, s.band_z0) - s.low_z0,
                         FMul(gain, gain) + FMul(two_res, gain) + F_ONE)
        /\ s.band = FMul(gain, s.high) + s.band_z0
        /\ s.band_z = s.band + FMul(gain, s.high)
        /\ s.low = FMul(gain, s.band) + s.low_z0
        /\ s.low_z = s.low + FMul(gain, s.band)

\* x is within tol of y.
Near(x, y, tol) == x - y <= tol /\ y - x <= tol

\* No narrowing saturated in sample s of FiltFxP::process, and no I12F20
\* operation overflowed.
Unsaturated(s) ==
    /\ s.ovf_at = 0
    /\ \A v \in {s.high_num, s.high, s.band, s.low, SampleFromI12F20(s.band_z0)} :
          v > I16_MIN /\ v < I16_MAX

\* Sample s of FiltFxP::process follows the recurrence up to quantization.
\* With gain in 2^-15, res in 2^-16, samples in 2^-12 and states in 2^-20:
\* the numerator is input - (2 res + gain) band_z - low_z and high times the
\* denominator gain^2 + 2 res gain + 1 gives it back, both taken in 2^-13;
\* band and low are a state plus gain times a sample, cut to the sample
\* format; the new states add the same gain term once more.
FiltFxPRecurrence(s) ==
    LET fb13  == (s.res + s.gain) \div 4
        den13 == MulShr(s.gain, s.gain, 17) + MulShr(s.res, s.gain, 17) + 8192
    IN  /\ s.gain = FxP_prewarped_gain(s.cutoff)
        /\ Near(s.high_num,
                s.input - MulShr(Shr(s.band_z0, 8), fb13, 13) - Shr(s.low_z0, 8), 8)
        /\ Near(MulShr(s.high, den13, 13), s.high_num, 16 + Abs(s.high_num) \div 256)
        /\ Near((s.band20 - s.band_z0) * 128, s.gain * s.high, 128)
        /\ s.band_z = s.band20 + (s.band20 - s.band_z0)
        /\ s.band = Shr(s.band20, 8)
        /\ Near((s.low20 - s.low_z0) * 128, s.gain * s.band, 128)
        /\ s.low_z = s.low20 + (s.low20 - s.low_z0)
        /\ s.low = Shr(s.low20, 8)

\* The filter the latest call ran on.
LastFilter == IF last.dev = "Filt" THEN filt ELSE filtfx

\* Every sample of the latest call of a filter follows the recurrence from the
\* state the sample before it left, the call's first sample aside, and the
\* filter holds the outputs and the state the last sample left.
RecurrenceInCall ==
    (Returned /\ last.dev \in {"Filt", "FiltFxP"}) =>
        /\ \A k \in Samples :
              LET s == last.trace[k]
              IN  /\ IF last.dev = "Filt" THEN FiltRecurrence(s)
                     ELSE Unsaturated(s) => FiltFxPRecurrence(s)
                  /\ k > 1 => /\ s.low_z0 = last.trace[k - 1].low_z
                              /\ s.band_z0 = last.trace[k - 1].band_z
                  /\ last.outs[1][k] = s.low /\ last.outs[2][k] = s.band
                  /\ last.outs[3][k] = s.high
        /\ last.n >= 1 => /\ LastFilter.low_z = last.trace[last.n].low_z
                          /\ LastFilter.band_z = last.trace[last.n].band_z

\* The first sample of a call of a filter starts from the state the filter
\* was left in by the call before, or by its construction.
CarriedIntoCall ==
    (last'.dev \in {"Filt", "FiltFxP"} /\ Len(last'.trace) >= 1) =>
        /\ last'.trace[1].low_z0 = LastFilter.low_z
        /\ last'.trace[1].band_z0 = LastFilter.band_z

\* C5: for each sample i, with gain computed from cutoff[i] and res from
\* resonance[i], high = (input - (2 res + gain) band_z - low_z) / (gain^2 +
\* 2 res gain + 1), band = gain high + band_z and then band_z = band + gain
\* high, low = gain band + low_z and then low_z = low + gain band, on the
\* state that sample i - 1 left, across calls too; FiltFxP::process computes
\* the same recurrence up to quantization while nothing saturates.
C5_Recurrence == []RecurrenceInCall /\ [][CarriedIntoCall]_vars

\* C5 has happened: the second call of FiltFxP::process on a stream went
\* through 256 unsaturated samples with the filter in motion.
C5_Witness ==
    /\ Returned /\ last.dev = "FiltFxP" /\ env.calls = 2
    /\ last.n = STATIC_BUFFER_SIZE
    /\ \A k \in Samples : Unsaturated(last.trace[k])
    /\ last.trace[1].low_z0 # 0 /\ last.trace[1].band_z0 # 0
    /\ last.trace[1].gain # last.trace[2].gain
    /\ last.trace[last.n].high # 0

(***************************************************************************)
(* Chunked calls (section 4.1): a caller feeds one filter three aligned     *)
(* streams of ChunkLen samples in consecutive chunks of sizes of its       *)
(* choice and collects what the calls return.  env.ref is what the split   *)
(* into full buffers returns on the same streams.                          *)
(***************************************************************************)
ChunkLen == 260

\* The caller makes at most MaxChunks calls.
MaxChunks == 4

ChunkSizes == {1, 2, STATIC_BUFFER_SIZE - 1, STATIC_BUFFER_SIZE}

\* The states (low_z, band_z) after each sample of a trace.
StatesOf(trace) ==
    [k \in 1..Len(trace) |-> <<trace[k].low_z, trace[k].band_z>>]

\* Two consecutive calls' results as one: the outputs and the states after
\* each sample.
Joined(r1, r2) ==
    [low |-> r1.low \o r2.low, band |-> r1.band \o r2.band,
     high |-> r1.high \o r2.high,
     states |-> StatesOf(r1.trace) \o StatesOf(r2.trace)]

\* The second of two calls of Filt::process that split streams at 256.
Filt_second(r1, streams) ==
    Joined(r1, Filt_process(r1.self, Rest(streams[1], STATIC_BUFFER_SIZE),
                            Rest(streams[2], STATIC_BUFFER_SIZE),
                            Rest(streams[3], STATIC_BUFFER_SIZE)))

\* The second of two calls of FiltFxP::process that split streams at 256.
FiltFxP_second(r1, streams, profile) ==
    Joined(r1, FiltFxP_process(r1.self, Rest(streams[1], STATIC_BUFFER_SIZE),
                               Rest(streams[2], STATIC_BUFFER_SIZE),
                               Rest(streams[3], STATIC_BUFFER_SIZE), profile))

\* What a new filter returns on streams split into full buffers.
Reference(dev, profile, streams) ==
    IF dev = "Filt"
    THEN Filt_second(Filt_process(Filt_new, streams[1], streams[2], streams[3]),
                     streams)
    ELSE FiltFxP_second(FiltFxP_process(FiltFxP_new, streams[1], streams[2],
                                        streams[3], profile),
                        streams, profile)

InitChunk ==
    /\ DevicesNew
    /\ last = NoCall
    /\ \E dev \in {"Filt", "FiltFxP"}, profile \in Profiles :
         \E pat \in PatternsOf(dev) :
           \E streams \in {[j \in 1..3 |-> Stream(pat[j], ChunkLen)]} :
             \E ref \in {Reference(dev, profile, streams)} :
               env = [dev |-> dev, profile |-> profile, streams |-> streams,
                      offset |-> 0, calls |-> 0, halted |-> FALSE, ref |-> ref,
                      low |-> <<>>, band |-> <<>>, high |-> <<>>]

\* Chunk size of stream j from the caller's offset.
Chunk(j, size) == SubSeq(env.streams[j], env.offset + 1, env.offset + size)

\* The caller after a chunked call returned r.
Collect(r) ==
    [env EXCEPT !.offset = IF r.panicked THEN @ ELSE @ + r.n,
                !.calls = @ + 1,
                !.halted = r.panicked,
                !.low = @ \o r.low, !.band = @ \o r.band, !.high = @ \o r.high]

\* The caller can feed a chunk of size samples.
CanFeed(size) ==
    /\ ~env.halted /\ env.calls < MaxChunks
    /\ size >= 1 /\ size <= STATIC_BUFFER_SIZE /\ env.offset + size <= ChunkLen

ChunkFilt(size) ==
    /\ env.dev = "Filt" /\ CanFeed(size)
    /\ \E r \in {Filt_process(filt, Chunk(1, size), Chunk(2, size), Chunk(3, size))} :
           /\ filt' = r.self
           /\ last' = [dev |-> "Filt", start |-> env.offset,
                       lens |-> <<size, size, size>>,
                       n |-> r.n, outs |-> <<r.low, r.band, r.high>>,
                       trace |-> r.trace, panicked |-> FALSE]
           /\ env' = Collect(r)
    /\ UNCHANGED <<amp, ampfx, filtfx>>

ChunkFiltFxP(size) ==
    /\ env.dev = "FiltFxP" /\ CanFeed(size)
    /\ \E r \in {FiltFxP_process(filtfx, Chunk(1, size), Chunk(2, size),
                                  Chunk(3, size), env.profile)} :
           /\ filtfx' = r.self
           /\ last' = [dev |-> "FiltFxP", start |-> env.offset,
                       lens |-> <<size, size, size>>,
                       n |-> r.n, outs |-> <<r.low, r.band, r.high>>,
                       trace |-> r.trace, panicked |-> r.panicked]
           /\ env' = Collect(r)
    /\ UNCHANGED <<amp, ampfx, filt>>

NextChunk == \E size \in ChunkSizes : ChunkFilt(size) \/ ChunkFiltFxP(size)

SpecChunk == InitChunk /\ [][NextChunk]_vars

\* C3: whatever the split into chunks, the outputs collected from the calls
\* so far and the state (low_z, band_z) of the filter are those of the split
\* into full buffers at the same offset: low_z and band_z alone are carried
\* from call to call, what earlier calls left in the buffers has no effect.
C3_ChunkingTransparent ==
    ~env.halted =>
        /\ Len(env.low) = env.offset
        /\ env.low = SubSeq(env.ref.low, 1, env.offset)
        /\ env.band = SubSeq(env.ref.band, 1, env.offset)
        /\ env.high = SubSeq(env.ref.high, 1, env.offset)
        /\ <<LastFilter.low_z, LastFilter.band_z>> =
              IF env.offset = 0 THEN <<0, 0>> ELSE env.ref.states[env.offset]

\* C3 has happened: a split that began with a chunk of one sample, so that
\* every later chunk lies across the buffers of the split into full ones, has
\* ended with a chunk of two over buffers a chunk of 255 or 256 had filled,
\* with the filter in motion.
C3_Witness ==
    /\ env.offset = ChunkLen /\ ~env.halted
    /\ last.dev = "FiltFxP" /\ last.n = 2
    /\ filtfx.low[3] # 0 /\ filtfx.low[3] # env.low[3]
    /\ env.high[ChunkLen] # 0 /\ filtfx.band_z # 0

(***************************************************************************)
(* The C bindings (filt.rs 217-329).  A foreign caller owns three buffers  *)
(* (env.bufs: input, cutoff, resonance) and three pointer variables        *)
(* (env.slots) it passes the addresses of; the C signature carries the     *)
(* number of samples and an offset, and no buffer length.                  *)
(***************************************************************************)
FfiBig == 259

FfiSmall == 2

\* At most MaxFfiCalls foreign calls are made on an instance.
MaxFfiCalls == 2

\* The lengths of the caller's buffers.
FfiBufLens == {<<FfiBig, FfiBig, FfiBig>>, <<FfiSmall, FfiBig, FfiBig>>,
               <<FfiBig, FfiBig, FfiSmall>>}

\* The (samples, offset) arguments of a call.
FfiCounts == {<<0, 0>>, <<1, 0>>, <<2, 0>>, <<2, 1>>, <<STATIC_BUFFER_SIZE + 1, 2>>}

\* The seven pointer arguments p, input, cutoff, resonance, low, band, high,
\* of which argument number null is null (none when null = 0).
Pointers(null) == [j \in 1..7 |-> IF j = null THEN "null" ELSE "valid"]

\* The null check with high left out.
AnyNull_but_high(ptrs) == \E j \in 1..6 : ptrs[j] = "null"

\* The null check of janus_filt_u16_process and janus_filt_f32_process.
AnyNull(ptrs) == \E j \in 1..7 : ptrs[j] = "null"

\* The slice of samples elements from the start of buf.
from_raw_parts_at_start(buf, offset, samples, g) ==
    [k \in 1..samples |-> IF k <= Len(buf) THEN buf[k] ELSE g]

\* std::slice::from_raw_parts(ptr.offset(offset), samples) on the buffer buf
\* behind ptr: an element beyond the buffer is whatever the memory there
\* holds, g.
from_raw_parts(buf, offset, samples, g) ==
    [k \in 1..samples |-> IF offset + k <= Len(buf) THEN buf[offset + k] ELSE g]

\* The elements process reads of slices of samples elements.
ReadCount(samples) == Min(samples, STATIC_BUFFER_SIZE)

\* A call with these arguments reads beyond one of the caller's buffers:
\* undefined behaviour.
ReadsBeyond(samples, offset) ==
    \E j \in 1..3 : offset + ReadCount(samples) > Len(env.bufs[j])

\* What a read beyond a buffer can find there.
Garbage(dev, samples, offset) ==
    IF ~ReadsBeyond(samples, offset) THEN {0}
    ELSE IF dev = "u16" THEN {0, 4096} ELSE {0, FUNIT}

\* A pointer variable of the caller that no call has written.
Unset == [buf |-> "unset", at |-> 0]

\* slice.as_ptr() of the low, band and high slices process returns: they
\* start at index 0 of the instance's buffers.
as_ptr(name) == [buf |-> name, at |-> 0]

\* The binding called and the build; Filt has no arithmetic that depends on
\* the build.
FfiBuilds == {<<"u16", "debug">>, <<"u16", "release">>, <<"f32", "release">>}

\* What the caller's buffers hold: input, cutoff and resonance, repeated.
FfiPattern(dev) ==
    IF dev = "u16"
    THEN <<<<4096, -4096, 0>>, <<100 * 512, 30 * 512>>, <<FXP_RES_MAX + 1, 32768>>>>
    ELSE <<<<FUNIT, -FUNIT, 0>>, <<100 * FUNIT, 30 * FUNIT>>, <<NaN, F_TWO, -FUNIT>>>>

InitFfi ==
    /\ DevicesNew
    /\ last = NoCall
    /\ \E build \in FfiBuilds, lens \in FfiBufLens :
         \E dev \in {build[1]}, profile \in {build[2]}, pat \in {FfiPattern(build[1])} :
             env = [dev |-> dev, profile |-> profile,
                    bufs |-> [j \in 1..3 |-> Stream(pat[j], lens[j])],
                    slots |-> <<Unset, Unset, Unset>>,
                    calls |-> 0, halted |-> FALSE]

\* The caller can make a call.
CanCall == ~env.halted /\ env.calls < MaxFfiCalls

\* What a call was given and what came of it.
FfiCall(dev, ptrs, samples, offset, returned, ret, trace) ==
    [dev |-> dev, ptrs |-> ptrs, samples |-> samples, offset |-> offset,
     returned |-> returned, ret |-> ret, trace |-> trace]

\* janus_filt_u16_process.  A null argument returns -1.  Otherwise the three
\* slices are made and FiltFxP::process runs on them; a read beyond a buffer
\* either finds some value there or faults, which ends the caller.  A panic
\* cannot unwind out of an extern "C" function: it ends the caller too.
janus_filt_u16_process(ptrs, samples, offset) ==
    /\ env.dev = "u16" /\ CanCall
    /\ \/ /\ AnyNull(ptrs)
          /\ last' = FfiCall("u16", ptrs, samples, offset, TRUE, -1, <<>>)
          /\ env' = [env EXCEPT !.calls = @ + 1]
          /\ UNCHANGED filtfx
       \/ /\ ~AnyNull(ptrs)
          /\ \E g \in Garbage("u16", samples, offset) :
             \E r \in {FiltFxP_process(filtfx, from_raw_parts(env.bufs[1], offset, samples, g),
                                               from_raw_parts(env.bufs[2], offset, samples, g),
                                               from_raw_parts(env.bufs[3], offset, samples, g),
                                                env.profile)} :
                /\ filtfx' = r.self
                /\ last' = FfiCall("u16", ptrs, samples, offset, ~r.panicked, r.n,
                                   r.trace)
                /\ env' = [env EXCEPT !.calls = @ + 1, !.halted = r.panicked,
                                      !.slots = IF r.panicked THEN @
                                                ELSE <<as_ptr("low"), as_ptr("band"),
                                                       as_ptr("high")>>]
       \/ /\ ~AnyNull(ptrs) /\ ReadsBeyond(samples, offset)
          /\ last' = FfiCall("u16", ptrs, samples, offset, FALSE, 0, <<>>)
          /\ env' = [env EXCEPT !.calls = @ + 1, !.halted = TRUE]
          /\ UNCHANGED filtfx
    /\ UNCHANGED <<amp, ampfx, filt>>

\* janus_filt_f32_process, the same around Filt::process.
janus_filt_f32_process(ptrs, samples, offset) ==
    /\ env.dev = "f32" /\ CanCall
    /\ \/ /\ AnyNull(ptrs)
          /\ last' = FfiCall("f32", ptrs, samples, offset, TRUE, -1, <<>>)
          /\ env' = [env EXCEPT !.calls = @ + 1]
          /\ UNCHANGED filt
       \/ /\ ~AnyNull(ptrs)
          /\ \E g \in Garbage("f32", samples, offset) :
             \E r \in {Filt_process(filt, from_raw_parts(env.bufs[1], offset, samples, g),
                                            from_raw_parts(env.bufs[2], offset, samples, g),
                                            from_raw_parts(env.bufs[3], offset, samples, g))} :
                /\ filt' = r.self
                /\ last' = FfiCall("f32", ptrs, samples, offset, ~r.panicked, r.n,
                                   r.trace)
                /\ env' = [env EXCEPT !.calls = @ + 1, !.halted = r.panicked,
                                      !.slots = IF r.panicked THEN @
                                                ELSE <<as_ptr("low"), as_ptr("band"),
                                                       as_ptr("high")>>]
       \/ /\ ~AnyNull(ptrs) /\ ReadsBeyond(samples, offset)
          /\ last' = FfiCall("f32", ptrs, samples, offset, FALSE, 0, <<>>)
          /\ env' = [env EXCEPT !.calls = @ + 1, !.halted = TRUE]
          /\ UNCHANGED filt
    /\ UNCHANGED <<amp, ampfx, filtfx>>

\* The calls a caller makes: each (samples, offset) with no pointer null, and
\* a call with each one of the seven pointers null.
FfiArgs ==
    {<<0, c>> : c \in FfiCounts} \cup {<<null, <<2, 0>>>> : null \in 1..7}

NextFfi ==
    \E a \in FfiArgs :
        \/ janus_filt_u16_process(Pointers(a[1]), a[2][1], a[2][2])
        \/ janus_filt_f32_process(Pointers(a[1]), a[2][1], a[2][2])

SpecFfi == InitFfi /\ [][NextFfi]_vars

\* The instance behind a binding.
Instance(dev) == IF dev = "u16" THEN filtfx ELSE filt

\* C6: janus_filt_u16_process and janus_filt_f32_process return -1 when any
\* of their seven pointer arguments is null, and such a call writes nothing
\* through low, band and high and leaves the instance as it was: low_z,
\* band_z and the buffers.
NullCallStep ==
    (\E j \in 1..7 : last'.ptrs[j] = "null") =>
        /\ last'.returned /\ last'.ret = -1
        /\ env'.slots = env.slots
        /\ filt' = filt /\ filtfx' = filtfx

C6_NullPointer == [][NullCallStep]_vars

\* C6 has happened: after a call that ran the filter and set the caller's
\* pointers, a call of janus_filt_u16_process with a null high returned -1.
C6_Witness ==
    /\ env.calls = 2 /\ last.dev = "u16" /\ last.ptrs = Pointers(7)
    /\ last.ret = -1 /\ last.samples = 2
    /\ env.slots[3] = as_ptr("high") /\ filtfx.band_z # 0 /\ filtfx.high[1] # 0

\* A buffer of the caller is shorter than offset + samples.
Mismatched(call) ==
    \E j \in 1..3 : Len(env.bufs[j]) < call.offset + call.samples

\* C7: a call with non-null pointers on input, cutoff and resonance buffers of
\* which one is shorter than offset + samples returns a negative value and
\* writes nothing through low, band and high.
MismatchedCallStep ==
    ((\A j \in 1..7 : last'.ptrs[j] = "valid") /\ Mismatched(last')
        /\ last'.returned) =>
            last'.ret < 0 /\ env'.slots = env.slots

C7_MismatchedLengths == [][MismatchedCallStep]_vars

\* C8: a call with non-null pointers on buffers of at least offset + samples
\* elements returns n = min(samples, 256), which is 0 for no samples and
\* never negative; it read elements offset .. offset + n - 1 of input, cutoff
\* and resonance; low, band and high point at index 0 of the instance's
\* buffers, whose first n entries are the results of this call, whatever an
\* earlier call left there.
C8_ForeignCall ==
    (last.dev \in {"u16", "f32"} /\ last.returned
        /\ (\A j \in 1..7 : last.ptrs[j] = "valid") /\ ~Mismatched(last)) =>
        LET n == IF last.samples < 256 THEN last.samples ELSE 256
        IN  /\ last.ret = n /\ last.ret >= 0
            /\ Len(last.trace) = n
            /\ \A k \in 1..n :
                  /\ last.trace[k].input = env.bufs[1][last.offset + k]
                  /\ last.trace[k].cutoff = env.bufs[2][last.offset + k]
                  /\ last.trace[k].resonance = env.bufs[3][last.offset + k]
                  /\ Instance(last.dev).low[k] = last.trace[k].low
                  /\ Instance(last.dev).band[k] = last.trace[k].band
                  /\ Instance(last.dev).high[k] = last.trace[k].high
            /\ env.slots = <<[buf |-> "low", at |-> 0], [buf |-> "band", at |-> 0],
                             [buf |-> "high", at |-> 0]>>

\* C8 has happened: the second call on an instance, of 257 samples at offset
\* 2, returned 256, the results of elements 2 .. 257 from index 0 on.
C8_Witness ==
    /\ env.calls = 2 /\ last.dev = "u16" /\ last.returned
    /\ last.ptrs = Pointers(0) /\ ~Mismatched(last)
    /\ last.samples = STATIC_BUFFER_SIZE + 1 /\ last.offset = 2
    /\ last.ret = STATIC_BUFFER_SIZE
    /\ filtfx.low_z # 0 /\ filtfx.high[1] = last.trace[1].high
    /\ last.trace[1].low_z0 # 0 /\ last.trace[1].high # 0

(***************************************************************************)
(* A caller that drives FiltFxP one sample per call, choosing each sample  *)
(* of input, cutoff and resonance after the samples before it.             *)
(***************************************************************************)
MaxDriveSamples == 320

\* "steady" holds a full-scale input at the highest cutoff and resonance;
\* "pump" pushes the input the way band_z points and lowers the damping
\* whenever low_z and band_z point opposite ways.
DrivePolicies == {"steady", "pump"}

\* The next sample of each stream, for a filter in state f.
DriveSample(policy, f) ==
    IF policy = "steady"
    THEN [input |-> I16_MAX, cutoff |-> U16_MAX, resonance |-> FXP_RES_MAX]
    ELSE [input |-> IF f.band_z >= 0 THEN I16_MAX ELSE I16_MIN,
          cutoff |-> U16_MAX,
          resonance |-> IF (f.low_z >= 0) = (f.band_z >= 0) THEN 0
                        ELSE FXP_RES_MAX]

InitDrive ==
    /\ DevicesNew
    /\ last = NoCall
    /\ \E policy \in DrivePolicies, profile \in Profiles :
         env = [dev |-> "FiltFxP", policy |-> policy, profile |-> profile,
                samples |-> 0, halted |-> FALSE]

DriveFiltFxP ==
    /\ ~env.halted /\ env.samples < MaxDriveSamples
    /\ \E x \in {DriveSample(env.policy, filtfx)} :
       \E r \in {FiltFxP_process(filtfx, <<x.input>>, <<x.cutoff>>, <<x.resonance>>,
                                 env.profile)} :
           /\ filtfx' = r.self
           /\ last' = [dev |-> "FiltFxP", start |-> env.samples, lens |-> <<1, 1, 1>>,
                       n |-> r.n, outs |-> <<r.low, r.band, r.high>>,
                       trace |-> r.trace, panicked |-> r.panicked]
           /\ env' = [env EXCEPT !.samples = @ + 1, !.halted = r.panicked]
    /\ UNCHANGED <<amp, ampfx, filt>>

NextDrive == DriveFiltFxP

SpecDrive == InitDrive /\ [][NextDrive]_vars

\* C10: whatever the input samples, cutoffs and resonances, and however many
\* the calls, no I12F20 computation of FiltFxP::process leaves the I12F20
\* range (the numerator of high, band, band_z, low, low_z), it does not panic,
\* and so low_z and band_z never overflow or wrap.
C10_StateInRange ==
    /\ ~last.panicked
    /\ \A k \in 1..Len(last.trace) : last.trace[k].ovf_at = 0

\* The output buffers of the device named dev, in state d.
BuffersOf(dev, d) ==
    IF dev \in {"Amp", "AmpFxP"} THEN <<d.outbuf>> ELSE <<d.low, d.band, d.high>>

\* A call of process changed the called device from d to e and returned: the
\* buffers hold the returned slices in [0, n) and are as they were from n on,
\* and with an empty stream among the inputs the device is as it was.
FrameOf(dev, d, e) ==
    /\ \A b \in 1..Len(BuffersOf(dev, d)) :
           /\ SubSeq(BuffersOf(dev, e)[b], 1, last'.n) = last'.outs[b]
           /\ SubSeq(BuffersOf(dev, e)[b], last'.n + 1, STATIC_BUFFER_SIZE)
                = SubSeq(BuffersOf(dev, d)[b], last'.n + 1, STATIC_BUFFER_SIZE)
    /\ (\E j \in 1..Len(last'.lens) : last'.lens[j] = 0) => e = d

\* A step of the caller: a call that returned kept to its frame, and the
\* devices it was not made on are as they were.
FrameStep ==
    ~last'.panicked =>
        /\ IF last'.dev = "Amp" THEN FrameOf("Amp", amp, amp') ELSE amp' = amp
        /\ IF last'.dev = "AmpFxP" THEN FrameOf("AmpFxP", ampfx, ampfx')
           ELSE ampfx' = ampfx
        /\ IF last'.dev = "Filt" THEN FrameOf("Filt", filt, filt') ELSE filt' = filt
        /\ IF last'.dev = "FiltFxP" THEN FrameOf("FiltFxP", filtfx, filtfx')
           ELSE filtfx' = filtfx

\* C15: a process call that returns n samples writes indices [0, n) of the
\* device's output buffers (the returned slices) and leaves [n, 256) as they
\* were; a call with an input stream of length 0 leaves the device as it was,
\* buffers and low_z and band_z; and a call on one device changes no other.
C15_Frame == [][FrameStep]_vars

\* A second call of FiltFxP::process returned one sample, and the buffers
\* still hold from index 1 on what the first call, of 256 samples, wrote.
C15_Witness ==
    /\ last.dev = "FiltFxP" /\ ~last.panicked
    /\ last.start = STATIC_BUFFER_SIZE /\ last.n = 1
    /\ filtfx.low[2] # 0 /\ filtfx.low[STATIC_BUFFER_SIZE] # 0
    /\ filtfx.low[1] = last.outs[1][1]
    /\ amp = Amp_new /\ ampfx = AmpFxP_new /\ filt = Filt_new

(***************************************************************************)
(* A caller that holds cutoff and resonance constant and feeds a new       *)
(* filter an impulse or a step, a full buffer per call, for HoldSamples     *)
(* samples.                                                                *)
(***************************************************************************)
HoldSamples == 10240

HoldKinds == {"impulse", "step"}

\* The ends and the middle of the note range (A4 = 69), in each domain's units.
HoldCutoffs(dev) ==
    IF dev = "Filt" THEN {0, 69 * FUNIT, 127 * FUNIT} ELSE {0, 69 * 512, U16_MAX}

\* The ends of [0, 1).
HoldResonances(dev) ==
    IF dev = "Filt" THEN {F_ZERO, F_ONE - 1} ELSE {0, SCALAR_MAX}

\* The height of the impulse and of the step: one for the floats, the largest
\* sample for SampleFxP.
HoldAmplitude(dev) == IF dev = "Filt" THEN F_ONE ELSE I16_MAX

InitHold ==
    /\ DevicesNew
    /\ last = NoCall
    /\ \E dev \in {"Filt", "FiltFxP"}, kind \in HoldKinds :
         \E cutoff \in HoldCutoffs(dev), resonance \in HoldResonances(dev) :
           env = [dev |-> dev, profile |-> "debug", kind |-> kind,
                  amplitude |-> HoldAmplitude(dev), cutoff |-> cutoff,
                  resonance |-> resonance, fed |-> 0, halted |-> FALSE]

\* The number of samples of the next call.
HoldChunk == Min(STATIC_BUFFER_SIZE, HoldSamples - env.fed)

\* The next HoldChunk samples of the input.
HoldInput ==
    [i \in 1..HoldChunk |->
        IF env.kind = "step" \/ (env.fed = 0 /\ i = 1) THEN env.amplitude ELSE 0]

\* The next HoldChunk samples of a stream that stays at value.
HoldConstant(value) == [i \in 1..HoldChunk |-> value]

CanHold == ~env.halted /\ env.fed < HoldSamples

HoldFilt ==
    /\ env.dev = "Filt" /\ CanHold
    /\ \E r \in {Filt_process(filt, HoldInput, HoldConstant(env.cutoff),
                             HoldConstant(env.resonance))} :
           /\ filt' = r.self
           /\ last' = [dev |-> "Filt", start |-> env.fed,
                       lens |-> <<HoldChunk, HoldChunk, HoldChunk>>,
                       n |-> r.n, outs |-> <<r.low, r.band, r.high>>,
                       trace |-> r.trace, panicked |-> FALSE]
           /\ env' = [env EXCEPT !.fed = @ + r.n]
    /\ UNCHANGED <<amp, ampfx, filtfx>>

HoldFiltFxP ==
    /\ env.dev = "FiltFxP" /\ CanHold
    /\ \E r \in {FiltFxP_process(filtfx, HoldInput, HoldConstant(env.cutoff),
                                HoldConstant(env.resonance), env.profile)} :
           /\ filtfx' = r.self
           /\ last' = [dev |-> "FiltFxP", start |-> env.fed,
                       lens |-> <<HoldChunk, HoldChunk, HoldChunk>>,
                       n |-> r.n, outs |-> <<r.low, r.band, r.high>>,
                       trace |-> r.trace, panicked |-> r.panicked]
           /\ env' = [env EXCEPT !.fed = IF r.panicked THEN @ ELSE @ + r.n,
                                 !.halted = r.panicked]
    /\ UNCHANGED <<amp, ampfx, filt>>

NextHold == HoldFilt \/ HoldFiltFxP

SpecHold == InitHold /\ [][NextHold]_vars

\* Eight times the largest input either domain is fed here: 64 in the units of
\* the floats, and in those of the I12F20 states and of the I4F12 outputs
\* (which as a type holds no more than 8).
HoldStateBound(dev) == IF dev = "Filt" THEN 64 * FUNIT ELSE 64 * 1048576
HoldOutputBound(dev) == IF dev = "Filt" THEN 64 * FUNIT ELSE 64 * 4096

\* Sample s of a call of dev stayed within the bounds and overflowed nowhere.
HoldBounded(dev, s) ==
    /\ Abs(s.low_z) <= HoldStateBound(dev)
    /\ Abs(s.band_z) <= HoldStateBound(dev)
    /\ Abs(s.low) <= HoldOutputBound(dev)
    /\ Abs(s.band) <= HoldOutputBound(dev)
    /\ Abs(s.high) <= HoldOutputBound(dev)
    /\ s.low # NaN /\ s.band # NaN /\ s.high # NaN
    /\ dev = "FiltFxP" => s.ovf_at = 0

\* C11: with cutoff and resonance held constant (cutoff at the ends and the
\* middle of the note range, resonance at the ends of [0, 1)), a new filter
\* fed an impulse or a step for HoldSamples >= 10,000 samples never panics,
\* never overflows an I12F20 computation, and keeps low, band, high, low_z and
\* band_z of every sample within eight times the largest input.
C11_Stable ==
    last.dev \in {"Filt", "FiltFxP"} =>
        /\ ~last.panicked
        /\ last.n = Len(last.trace)
        /\ \A k \in 1..Len(last.trace) : HoldBounded(last.dev, last.trace[k])

\* A fixed-point filter at the top of the note range and of the resonance has
\* taken a step for 10,000 samples and more, and its low-pass state has moved.
C11_Witness ==
    /\ last.dev = "FiltFxP"
    /\ env.kind = "step" /\ env.cutoff = U16_MAX /\ env.resonance = SCALAR_MAX
    /\ env.fed >= 10000
    /\ last.n = STATIC_BUFFER_SIZE
    /\ filtfx.low_z # 0

(***************************************************************************)
(* A caller that feeds a new filter a constant input at a constant cutoff  *)
(* and resonance, a full buffer per call, for as long as it runs.  The     *)
(* caller counts its calls up to SettleBy and no further, and never stops. *)
(***************************************************************************)
SettleBy == 64

\* <<cutoff, resonance>>: the bottom of the note range undamped and at half
\* resonance, A4 undamped and at the top resonance, the top of the range at
\* the top resonance.
SettleConfigs(dev) ==
    IF dev = "Filt"
    THEN {<<0, F_ZERO>>, <<0, FUNIT \div 2>>, <<69 * FUNIT, F_ZERO>>,
          <<69 * FUNIT, F_ONE - 1>>, <<127 * FUNIT, F_ONE - 1>>}
    ELSE {<<0, 0>>, <<0, 32768>>, <<69 * 512, 0>>,
          <<69 * 512, SCALAR_MAX>>, <<U16_MAX, SCALAR_MAX>>}

\* The constant inputs: full scale, and a negative one inside the range.
SettleInputs(dev) ==
    IF dev = "Filt" THEN {F_ONE, -(FUNIT \div 2)} ELSE {I16_MAX, -4096}

InitSettle ==
    /\ DevicesNew
    /\ last = NoCall
    /\ \E dev \in {"Filt", "FiltFxP"} :
         \E c \in SettleConfigs(dev), input \in SettleInputs(dev) :
           env = [dev |-> dev, profile |-> "debug", input |-> input,
                  cutoff |-> c[1], resonance |-> c[2], calls |-> 0,
                  halted |-> FALSE]

\* A full buffer of a stream that stays at value.
SettleConstant(value) == [i \in 1..STATIC_BUFFER_SIZE |-> value]

SettleFilt ==
    /\ env.dev = "Filt" /\ ~env.halted
    /\ \E r \in {Filt_process(filt, SettleConstant(env.input),
                             SettleConstant(env.cutoff),
                             SettleConstant(env.resonance))} :
           /\ filt' = r.self
           /\ last' = [dev |-> "Filt", start |-> 0,
                       lens |-> <<STATIC_BUFFER_SIZE, STATIC_BUFFER_SIZE,
                                  STATIC_BUFFER_SIZE>>,
                       n |-> r.n, outs |-> <<r.low, r.band, r.high>>,
                       trace |-> r.trace, panicked |-> FALSE]
           /\ env' = [env EXCEPT !.calls = Min(@ + 1, SettleBy)]
    /\ UNCHANGED <<amp, ampfx, filtfx>>

SettleFiltFxP ==
    /\ env.dev = "FiltFxP" /\ ~env.halted
    /\ \E r \in {FiltFxP_process(filtfx, SettleConstant(env.input),
                                SettleConstant(env.cutoff),
                                SettleConstant(env.resonance), env.profile)} :
           /\ filtfx' = r.self
           /\ last' = [dev |-> "FiltFxP", start |-> 0,
                       lens |-> <<STATIC_BUFFER_SIZE, STATIC_BUFFER_SIZE,
                                  STATIC_BUFFER_SIZE>>,
                       n |-> r.n, outs |-> <<r.low, r.band, r.high>>,
                       trace |-> r.trace, panicked |-> r.panicked]
           /\ env' = [env EXCEPT !.calls = Min(@ + 1, SettleBy),
                                 !.halted = r.panicked]
    /\ UNCHANGED <<amp, ampfx, filt>>

NextSettle == SettleFilt \/ SettleFiltFxP

SpecSettle == InitSettle /\ [][NextSettle]_vars

\* How near "approached" is: 1/256 in SampleFxP (16 steps of I4F12), and 1/32
\* for the floats, whose integrators here move in steps of 1/FUNIT and stop
\* once gain * high rounds to nothing.
SettleTol(dev) == IF dev = "Filt" THEN FUNIT \div 32 ELSE 16

\* Every sample of the latest call had low at the input and band and high at
\* zero, to within SettleTol.
Settled ==
    /\ last.dev \in {"Filt", "FiltFxP"}
    /\ ~last.panicked
    /\ last.n = STATIC_BUFFER_SIZE
    /\ \A k \in 1..Len(last.trace) :
           /\ Near(last.trace[k].low, env.input, SettleTol(last.dev))
           /\ Near(last.trace[k].band, 0, SettleTol(last.dev))
           /\ Near(last.trace[k].high, 0, SettleTol(last.dev))

\* What one iteration computes from the state low_z = input, band_z = 0.
AtTarget ==
    IF env.dev = "Filt"
    THEN Filt_sample(env.input, F_ZERO, env.input, env.cutoff, env.resonance)
    ELSE FiltFxP_sample(env.input * 256, 0, env.input, env.cutoff, env.resonance)

\* low_z = input, band_z = 0 is a fixed point of the iteration, with low at
\* the input and band and high at zero.
TargetFixed ==
    /\ AtTarget.low_z = AtTarget.low_z0 /\ AtTarget.band_z = 0
    /\ AtTarget.low = env.input /\ AtTarget.band = 0 /\ AtTarget.high = 0

\* C12: with input, cutoff and resonance constant, a filter started from zero
\* state settles, in both domains: every call from the SettleBy-th on, however
\* many follow, has on every sample low within SettleTol of the input and band
\* and high within SettleTol of zero; and the state low_z = input, band_z = 0
\* is a fixed point of the per-sample update.
C12_Settles ==
    /\ TargetFixed
    /\ env.calls >= SettleBy => Settled

\* A fixed-point filter at the lowest cutoff has settled by call SettleBy,
\* with its low-pass state away from zero and at rest.
C12_Witness ==
    /\ Settled /\ env.calls >= SettleBy
    /\ last.dev = "FiltFxP" /\ env.cutoff = 0 /\ env.input = I16_MAX
    /\ last.trace[1].low_z0 # 0
    /\ filtfx.low_z = last.trace[1].low_z0

(***************************************************************************)
(* The control surface (janus_plugin editor.rs): JanusEditor::update turns *)
(* the key events of a frame into note numbers and hands them to the audio *)
(* side over a bounded channel of i8.                                       *)
(***************************************************************************)
\* janus::midi_const, as the MIDI note numbers of the names (C4 = 60).
midi_const ==
    [C4 |-> 60, Db4 |-> 61, D4 |-> 62, Eb4 |-> 63, E4 |-> 64, F4 |-> 65,
     Gb4 |-> 66, G4 |-> 67, Ab4 |-> 68, A4 |-> 69, Bb4 |-> 70, B4 |-> 71,
     C5 |-> 72, Db5 |-> 73, D5 |-> 74, Eb5 |-> 75]

\* x as i8
as_i8(x) == ((x + 128) % 256) - 128

\* key_to_notenum: an Option<i8>, here the set of at most one note.
key_to_notenum(k) ==
    CASE k = "A" -> {as_i8(midi_const.C4)}
      [] k = "S" -> {as_i8(midi_const.D4)}
      [] k = "D" -> {as_i8(midi_const.E4)}
      [] k = "F" -> {as_i8(midi_const.F4)}
      [] k = "G" -> {as_i8(midi_const.G4)}
      [] k = "H" -> {as_i8(midi_const.A4)}
      [] k = "J" -> {as_i8(midi_const.B4)}
      [] k = "K" -> {as_i8(midi_const.C5)}
      [] k = "L" -> {as_i8(midi_const.D5)}
      [] k = "W" -> {as_i8(midi_const.Db4)}
      [] k = "E" -> {as_i8(midi_const.Eb4)}
      [] k = "T" -> {as_i8(midi_const.Gb4)}
      [] k = "Y" -> {as_i8(midi_const.Ab4)}
      [] k = "U" -> {as_i8(midi_const.Bb4)}
      [] k = "O" -> {as_i8(midi_const.Db5)}
      [] k = "P" -> {as_i8(midi_const.Eb5)}
      [] OTHER -> {}

\* k += -128 on an i8: the sum, and whether it left the range of i8 (a panic
\* in a debug build, a wrapped value in a release build).
note_off(k) ==
    [value |-> as_i8(k + (-128)), overflow |-> k + (-128) < -128]

\* The channel a SyncSender<i8> writes to: what is queued, how much fits, and
\* whether the Receiver still exists.
ChannelCapacity == 2

sync_channel == [queue |-> <<>>, bound |-> ChannelCapacity, connected |-> TRUE]

\* SyncSender::send, which waits for room.
send_blocking(chan, k) ==
    IF ~chan.connected THEN [chan |-> chan, result |-> "disconnected"]
    ELSE IF Len(chan.queue) >= chan.bound THEN [chan |-> chan, result |-> "blocked"]
    ELSE [chan |-> [chan EXCEPT !.queue = Append(@, k)], result |-> "ok"]

\* SyncSender::try_send
try_send(chan, k) ==
    IF ~chan.connected THEN [chan |-> chan, result |-> "disconnected"]
    ELSE IF Len(chan.queue) >= chan.bound THEN [chan |-> chan, result |-> "full"]
    ELSE [chan |-> [chan EXCEPT !.queue = Append(@, k)], result |-> "ok"]

\* The value update sends for a key event of a mapped key with note k.
event_value(evt, k) == IF evt.pressed THEN [value |-> k, overflow |-> FALSE] ELSE note_off(k)

\* The body of the loop of update for event evt, on the loop state st: the
\* channel, the sends made and their results, and whether the thread is
\* waiting in a send or has panicked.
update_event(st, evt) ==
    IF evt.type # "Key" \/ evt.repeat \/ key_to_notenum(evt.key) = {} THEN st
    ELSE LET k == event_value(evt, CHOOSE n \in key_to_notenum(evt.key) : TRUE)
             r == try_send(st.chan, k.value)
         IN  [chan |-> r.chan,
              sent |-> Append(st.sent, [value |-> k.value, result |-> r.result]),
              blocked |-> r.result = "blocked",
              overflow |-> k.overflow]

\* for evt in i.events.iter(): the loop over the events from the i-th on; it
\* goes no further once a send waits or the arithmetic has panicked.
RECURSIVE update_loop(_, _, _, _)
update_loop(st, events, i, profile) ==
    IF i > Len(events) \/ st.blocked \/ (st.overflow /\ profile = "debug") THEN st
    ELSE update_loop(update_event(st, events[i]), events, i + 1, profile)

\* JanusEditor::update on the events of a frame.  The widgets it draws after
\* the loop hold no state of the model.
update(chan, events, profile) ==
    update_loop([chan |-> chan, sent |-> <<>>, blocked |-> FALSE, overflow |-> FALSE],
                events, 1, profile)

(***************************************************************************)
(* The keyboard, the editor and the audio side.  The keyboard reports a    *)
(* press of a key that is up, a repeat or a release of a key that is down; *)
(* a frame brings up to MaxEvents events of one key.  The audio side takes  *)
(* one value from the channel at a time, or goes away.                     *)
(***************************************************************************)
MaxEvents == 2

\* Two mapped keys, the lowest and the highest note, and one with no note.
EventKeys == {"A", "P", "Z"}

KeyEvent(key, pressed, repeat) ==
    [type |-> "Key", key |-> key, pressed |-> pressed, repeat |-> repeat]

\* An event that is no key event.
PointerMoved == [type |-> "PointerMoved", key |-> "", pressed |-> FALSE, repeat |-> FALSE]

\* n events of key, pressed and released in turn, from its state in held.
KeyTaps(key, held, n) ==
    [i \in 1..n |-> KeyEvent(key, (key \in held) = (i % 2 = 0), FALSE)]

\* The frames the keyboard can report while the keys of held are down: none
\* but a pointer event, the taps of a key, and the repeat of a key that is
\* down, alone and before its release.
Frames(held) ==
    {<<>>, <<PointerMoved>>}
      \cup {KeyTaps(k, held, n) : k \in EventKeys, n \in 1..MaxEvents}
      \cup {<<KeyEvent(k, TRUE, TRUE)>> : k \in held}
      \cup {<<KeyEvent(k, TRUE, TRUE), KeyEvent(k, FALSE, FALSE)>> : k \in held}

\* The keys down after event evt.
HeldAfter(held, evt) ==
    IF evt.type # "Key" THEN held
    ELSE IF evt.pressed THEN held \cup {evt.key} ELSE held \ {evt.key}

\* The keys down after all of events.
RECURSIVE HeldAfterAll(_, _)
HeldAfterAll(held, events) ==
    IF events = <<>> THEN held
    ELSE HeldAfterAll(HeldAfter(held, Head(events)), Tail(events))

InitEditor ==
    /\ DevicesNew
    /\ last = NoCall
    /\ \E profile \in Profiles :
         env = [dev |-> "editor", profile |-> profile, channel |-> sync_channel,
                held |-> {}, sounding |-> {}, blocked |-> FALSE, halted |-> FALSE]

\* A frame of the editor: update runs on its events.
Update ==
    /\ ~env.blocked /\ ~env.halted
    /\ \E events \in Frames(env.held) :
       \E r \in {update(env.channel, events, env.profile)} :
           /\ last' = [dev |-> "editor", events |-> events, before |-> env.channel,
                       sent |-> r.sent,
                       completed |-> ~r.blocked /\ ~(r.overflow /\ env.profile = "debug"),
                       overflow |-> r.overflow]
           /\ env' = [env EXCEPT !.channel = r.chan,
                                 !.held = HeldAfterAll(@, events),
                                 !.blocked = r.blocked,
                                 !.halted = r.overflow /\ env.profile = "debug"]
    /\ UNCHANGED <<amp, ampfx, filt, filtfx>>

\* The notes on at the audio side after it has received value.
SoundingAfter(sounding, value) ==
    IF value >= 0 THEN sounding \cup {value} ELSE sounding \ {value + 128}

\* The audio side takes the oldest value from the channel.
AudioReceive ==
    /\ env.channel.connected /\ env.channel.queue # <<>>
    /\ last' = [dev |-> "audio", value |-> Head(env.channel.queue)]
    /\ env' = [env EXCEPT !.channel.queue = Tail(@),
                          !.sounding = SoundingAfter(@, Head(env.channel.queue)),
                          !.blocked = FALSE]
    /\ UNCHANGED <<amp, ampfx, filt, filtfx>>

\* The audio side goes away and its Receiver with it; what was queued is lost
\* and nothing sounds any more.
AudioDropped ==
    /\ env.channel.connected
    /\ last' = [dev |-> "dropped"]
    /\ env' = [env EXCEPT !.channel.connected = FALSE, !.channel.queue = <<>>,
                          !.sounding = {}, !.blocked = FALSE]
    /\ UNCHANGED <<amp, ampfx, filt, filtfx>>

NextEditor == Update \/ AudioReceive \/ AudioDropped

SpecEditor == InitEditor /\ [][NextEditor]_vars

\* A key event of a mapped key that is no repeat.
Wanted(evt) == evt.type = "Key" /\ ~evt.repeat /\ key_to_notenum(evt.key) # {}

\* The note of a mapped key.
NoteOf(key) == CHOOSE n \in key_to_notenum(key) : TRUE

\* The sends of the latest update before its i-th that the channel took.
TakenBefore(i) == {j \in 1..(i - 1) : last.sent[j].result = "ok"}

\* What a send that does not wait answers on the channel the latest update
\* found, after the sends before its i-th.
Answer(i) ==
    IF ~last.before.connected THEN "disconnected"
    ELSE IF Len(last.before.queue) + Cardinality(TakenBefore(i)) < last.before.bound
         THEN "ok"
         ELSE "full"

\* The value of a send.
ValueOf(sent) == sent.value

\* The values of the latest update that the channel took, in order.
Taken ==
    LET ok(sent) == sent.result = "ok"
        taken == SelectSeq(last.sent, ok)
    IN  [i \in 1..Len(taken) |-> ValueOf(taken[i])]

\* C13: whatever the channel holds (nothing, something, all it can) and
\* whether or not the receiver still exists, update runs to its end without
\* waiting; it hands every key event of a mapped key that is no repeat, in
\* order, to the channel (the note for a press, the note - 128 for a release);
\* the channel takes the value when it is connected and has room, and
\* otherwise the value is dropped, the channel is left as it was, and update
\* goes on with the next event.
C13_UpdateNeverBlocks ==
    last.dev = "editor" =>
        LET wanted == SelectSeq(last.events, Wanted)
        IN  /\ last.completed /\ ~env.blocked /\ ~env.halted
            /\ Len(last.sent) = Len(wanted)
            /\ \A i \in 1..Len(wanted) :
                   /\ last.sent[i].value =
                        IF wanted[i].pressed THEN NoteOf(wanted[i].key)
                        ELSE NoteOf(wanted[i].key) - 128
                   /\ last.sent[i].result = Answer(i)
            /\ env.channel = [last.before EXCEPT !.queue = @ \o Taken]

\* An update found the channel partly full: its first send filled it and its
\* second was dropped.
C13_Witness ==
    /\ last.dev = "editor" /\ last.completed
    /\ Len(last.before.queue) = ChannelCapacity - 1
    /\ Len(last.sent) = 2
    /\ last.sent[1].result = "ok" /\ last.sent[2].result = "full"
    /\ Len(env.channel.queue) = ChannelCapacity

\* The editor is asked for every frame while its window is there, and the
\* audio side takes what the channel holds at every block.
SpecEditorFair == SpecEditor /\ WF_vars(Update) /\ WF_vars(AudioReceive)

\* The keys that have a note.
MappedKeys == {key \in EventKeys : key_to_notenum(key) # {}}

\* The values update sends for a release are the note - 128 within i8.
NoteOffInRange ==
    last.dev = "editor" =>
        /\ ~last.overflow
        /\ \A i \in 1..Len(last.sent) :
               last.sent[i].value \in (0..127) \cup {n - 128 : n \in 0..127}

\* C16: the note-off of a release is the note - 128, computed within i8, and
\* a note that is on at the audio side while its key is up is turned off
\* later, unless the key goes down again first: the audio side receives the
\* note - 128 (or goes away), so that no note stays on for ever after its key
\* was released.
C16_NoteOffFollows ==
    /\ []NoteOffInRange
    /\ \A key \in MappedKeys :
           (NoteOf(key) \in env.sounding /\ key \notin env.held)
               ~> (NoteOf(key) \notin env.sounding \/ key \in env.held)

(***************************************************************************)
(* The coefficient arithmetic of FiltFxP::process on its own, for gains    *)
(* over all of U1F15 and res over all of U0F16.                            *)
(***************************************************************************)
\* The ends of a 16-bit format, its powers of two and their neighbours.
Raw16 ==
    {0, 1, 255, 256, 4095, 4096, 16383, 16384, 32767, 32768, 32769, 46341,
     49152, 61440, 65534, 65535}

InitCoeff ==
    /\ DevicesNew
    /\ last = NoCall
    /\ \E gain \in Raw16, res \in Raw16 :
         env = [dev |-> "coefficients", gain |-> gain, res |-> res, done |-> FALSE]

\* The coefficient statements of one iteration (filt.rs 174-185).
Coefficients ==
    /\ ~env.done
    /\ last' = [dev |-> "coefficients", c |-> FiltFxP_coefficients(env.gain, env.res)]
    /\ env' = [env EXCEPT !.done = TRUE]
    /\ UNCHANGED <<amp, ampfx, filt, filtfx>>

NextCoeff == Coefficients

SpecCoeff == InitCoeff /\ [][NextCoeff]_vars

\* C14: for every gain of U1F15 and res of U0F16, the coefficient arithmetic
\* of FiltFxP::process loses no high-order bit: gain2 is below 4 and gain_r
\* below 2 in U3F29, so the shift of gain_r left by one drops nothing;
\* k = gain2 + 2 * gain_r has no carry out of 32 bits (k < 8 in U3F29) and is
\* that sum; gain_plus_2r = 2 * res + gain stays below 2^31 in U3F29 (below
\* 4), and its narrowing to U3F13 is the 16-bit value (res + gain) / 4, below 8.
C14_CoefficientsFit ==
    last.dev = "coefficients" =>
        /\ last.c.gain2 >= 0 /\ last.c.gain2 \div 65536 <= 32767
        /\ last.c.gain_r >= 0 /\ last.c.gain_r \div 65536 <= 16383
        /\ last.c.gain_r_shl.hi <= U16_MAX
        /\ last.c.gain_r_shl.hi = last.c.gain_r \div 32768
        /\ last.c.k.hi <= U16_MAX
        /\ last.c.k.hi = (last.c.gain2 \div 2 + last.c.gain_r) \div 32768
        /\ last.c.k.lo = ((last.c.gain2 % 65536) + 2 * (last.c.gain_r % 32768)) % 65536
        /\ last.c.gain_plus_2r >= 0
        /\ last.c.gain_plus_2r \div 16384 = env.res + env.gain
        /\ last.c.fb_gain <= U16_MAX
        /\ last.c.fb_gain = (env.res + env.gain) \div 4

\* The largest gain and the largest res: k comes within 2/8192 of 8 and the
\* narrowed gain + 2 * res within 1/8192 of 4.
C14_Witness ==
    /\ last.dev = "coefficients"
    /\ env.gain = U16_MAX /\ env.res = SCALAR_MAX
    /\ last.c.k.hi = U16_MAX - 1
    /\ last.c.fb_gain = 32767

====
